---- MODULE Spec2Model ----
(***************************************************************************)
(* Model of the shipping calculator: the validator package                 *)
(* (internal/validator/shipping.go) and the shipping service               *)
(* (internal/service: CalculateShipping, calculateBaseCost,                *)
(* calculateShippingDetails, buildResponse).                               *)
(*                                                                         *)
(* Strings are sequences of runes, each rune a one-element TLA+ string.    *)
(* float64 values are modelled as exact rationals extended with +Inf,      *)
(* -Inf and NaN; rounding of finite results is not modelled, so a finite   *)
(* result here is the real-number value of the Go expression.              *)
(***************************************************************************)
EXTENDS Integers, Sequences, FiniteSets, TLC

VARIABLES
    pc,         \* position of the call under analysis: "start" or "done"
    req,        \* model.CalculateShippingRequest handed to CalculateShipping
    resp,       \* *model.CalculateShippingResponse returned (None when nil)
    err,        \* error returned by CalculateShipping (Nil when nil)
    warnings,   \* params of the LogWarning calls made by CalculateShipping
    zipcode,    \* argument of a direct ValidateZipcode call
    fieldName,  \* fieldName argument of that call
    zipErr,     \* error returned by ValidateZipcode (Nil when nil)
    origin,     \* originZipcode argument of a direct calculateBaseCost call
    destination,\* destinationZipcode argument of that call
    baseCost,   \* float64 returned by calculateBaseCost (None before the call)
    dIn,        \* arguments of a direct calculateShippingDetails call
    details,    \* *model.ShippingCalculationDetails it returned
    built,      \* response buildResponse made from details
    other,      \* a second breakdown handed to buildResponse
    otherBuilt, \* response buildResponse made from other
    dims,       \* length, width, height of a direct ValidateDimensions call
    dimErr,     \* error returned by ValidateDimensions (Nil when nil)
    calls,      \* locals of each CalculateShipping call on the one service
    svc,        \* the ShippingService value the calls share
    logged,     \* entries the calls have handed to the logger
    http,       \* the request ShippingHandler.CalculateShipping is serving
    metrics,    \* what the four shipment instruments have recorded
    served,     \* number of requests the handler has completed
    telemetry,  \* package telemetry: once, instance and the environment
    getters     \* the goroutines calling getInstance

vars == <<pc, req, resp, err, warnings, zipcode, fieldName, zipErr,
          origin, destination, baseCost, dIn, details, built,
          other, otherBuilt, dims, dimErr, calls, svc, logged,
          http, metrics, served, telemetry, getters>>

\* The nil error; an error is its message.
Nil == "<nil>"

\* The nil pointer, and the value of a result not yet computed.
None == [k |-> "nil"]

----------------------------------------------------------------------------
(* float64 *)

RECURSIVE GCD(_, _)
GCD(a, b) == IF b = 0 THEN a ELSE GCD(b, a % b)

Abs(n) == IF n < 0 THEN -n ELSE n

PosInf == [k |-> "inf", n |-> 1, d |-> 0, e |-> 0]
NegInf == [k |-> "inf", n |-> -1, d |-> 0, e |-> 0]
NaN == [k |-> "nan", n |-> 0, d |-> 0, e |-> 0]

\* The float64 nearest to (n/d) * 10^(300 * e), d # 0: the fraction in lowest
\* terms with a positive denominator, and the scale e, which is -1, 0 or 1 for
\* the finite values other than zero.  Above the largest float64, about
\* 1.797693 * 10^308, the value is an infinity; two scales down it is zero.
Scaled(n, d, e) ==
    LET s == IF d < 0 THEN -1 ELSE 1
        g == GCD(Abs(n), Abs(d))
        num == (s * n) \div g
        den == (s * d) \div g
    IN  IF n = 0 \/ e < -1 THEN [k |-> "fin", n |-> 0, d |-> 1, e |-> 0]
        ELSE IF e > 1 \/ (e = 1 /\ Abs(num) \div den >= 179769314)
            THEN IF num > 0 THEN PosInf ELSE NegInf
        ELSE [k |-> "fin", n |-> num, d |-> den, e |-> e]

\* The finite value n/d (d # 0) of ordinary size.
Fin(n, d) == Scaled(n, d, 0)

IsFin(x) == x.k = "fin"
IsNaN(x) == x.k = "nan"

\* -1, 0 or 1: the sign of a finite or infinite value.
Sign(x) == IF x.n < 0 THEN -1 ELSE IF x.n > 0 THEN 1 ELSE 0

\* -x
FNeg(x) ==
    IF IsNaN(x) THEN NaN
    ELSE IF IsFin(x) THEN Scaled(-x.n, x.d, x.e)
    ELSE IF x = PosInf THEN NegInf ELSE PosInf

\* x + y: a term 300 decimal orders below the other is lost in the rounding
FAdd(x, y) ==
    IF IsNaN(x) \/ IsNaN(y) THEN NaN
    ELSE IF IsFin(x) /\ IsFin(y)
        THEN IF x.n = 0 THEN y
             ELSE IF y.n = 0 THEN x
             ELSE IF x.e > y.e THEN x
             ELSE IF y.e > x.e THEN y
             ELSE LET g == GCD(x.d, y.d)
                  IN  Scaled(x.n * (y.d \div g) + y.n * (x.d \div g),
                             (x.d \div g) * y.d, x.e)
    ELSE IF IsFin(x) THEN y
    ELSE IF IsFin(y) THEN x
    ELSE IF x = y THEN x ELSE NaN

\* x - y
FSub(x, y) == FAdd(x, FNeg(y))

\* x * y
FMul(x, y) ==
    IF IsNaN(x) \/ IsNaN(y) THEN NaN
    ELSE IF IsFin(x) /\ IsFin(y)
        THEN LET g == GCD(Abs(x.n), y.d)
                 h == GCD(Abs(y.n), x.d)
             IN  Scaled((x.n \div g) * (y.n \div h), (x.d \div h) * (y.d \div g),
                        x.e + y.e)
    ELSE IF Sign(x) * Sign(y) = 0 THEN NaN
    ELSE IF Sign(x) * Sign(y) > 0 THEN PosInf ELSE NegInf

\* x / y for a finite non-zero divisor y (the code divides by constants only)
FDiv(x, y) ==
    IF IsNaN(x) THEN NaN
    ELSE IF IsFin(x) THEN FMul(x, Scaled(y.d, y.n, -y.e))
    ELSE IF Sign(x) * Sign(y) > 0 THEN PosInf ELSE NegInf

\* x < y: every comparison with NaN is false
FLt(x, y) ==
    IF IsNaN(x) \/ IsNaN(y) THEN FALSE
    ELSE IF IsFin(x) /\ IsFin(y)
        THEN IF x.e = y.e
                 THEN LET g == GCD(x.d, y.d)
                      IN  x.n * (y.d \div g) < y.n * (x.d \div g)
                 ELSE Sign(FAdd(y, FNeg(x))) > 0
    ELSE IF IsFin(x) THEN y = PosInf
    ELSE IF IsFin(y) THEN x = NegInf
    ELSE x = NegInf /\ y = PosInf

\* x <= y
FLe(x, y) == FLt(x, y) \/ (~IsNaN(x) /\ ~IsNaN(y) /\ x = y)

\* x > y
FGt(x, y) == FLt(y, x)

\* Go's == on float64: NaN equals nothing, not even itself.
FEq(x, y) == ~IsNaN(x) /\ ~IsNaN(y) /\ x = y

\* The float64 of an integer literal.
FInt(n) == Fin(n, 1)

----------------------------------------------------------------------------
(* strings *)

AsciiDigits == {"0", "1", "2", "3", "4", "5", "6", "7", "8", "9"}

\* Decimal digits outside ASCII (category Nd): ARABIC-INDIC DIGIT THREE and
\* FULLWIDTH DIGIT ONE, of 2 and 3 bytes in UTF-8.
NonAsciiDigits == {"U+0663", "U+FF11"}

\* The runes strings are made of: digits, the two separators, a sign,
\* letters, a newline and the non-ASCII digits.  There is no '.', 'e', 'x',
\* 'p', '_' or upper-case letter among them.
Runes == AsciiDigits \cup NonAsciiDigits \cup
         {"-", " ", "+", "a", "b", "c", "i", "n", "f", "\n"}

\* utf8.RuneLen
RuneLen(c) == IF c = "U+0663" THEN 2 ELSE IF c = "U+FF11" THEN 3 ELSE 1

\* len(s) of a Go string: its length in bytes
RECURSIVE ByteLen(_)
ByteLen(s) == IF s = <<>> THEN 0 ELSE RuneLen(Head(s)) + ByteLen(Tail(s))

\* unicode.IsDigit
IsDigit(c) == c \in AsciiDigits \cup NonAsciiDigits

\* strings.ReplaceAll(s, old, "") for a one-rune old
ReplaceAll(s, old) == SelectSeq(s, LAMBDA c : c # old)

\* strings.ReplaceAll(strings.ReplaceAll(z, "-", ""), " ", "")
Normalize(z) == ReplaceAll(ReplaceAll(z, "-"), " ")

\* The value of an ASCII digit
DigitVal(c) ==
    CASE c = "0" -> 0 [] c = "1" -> 1 [] c = "2" -> 2 [] c = "3" -> 3
      [] c = "4" -> 4 [] c = "5" -> 5 [] c = "6" -> 6 [] c = "7" -> 7
      [] c = "8" -> 8 [] c = "9" -> 9

\* The number a run of ASCII digits denotes
RECURSIVE DecimalVal(_)
DecimalVal(s) ==
    IF s = <<>> THEN 0
    ELSE 10 * DecimalVal(SubSeq(s, 1, Len(s) - 1)) + DigitVal(s[Len(s)])

AllAsciiDigits(s) == \A i \in 1..Len(s) : s[i] \in AsciiDigits

\* Length of the longest common prefix of s and word
RECURSIVE CommonPrefixLen(_, _)
CommonPrefixLen(s, word) ==
    IF s = <<>> \/ word = <<>> \/ Head(s) # Head(word) THEN 0
    ELSE 1 + CommonPrefixLen(Tail(s), Tail(word))

\* strconv.ParseFloat(s, 64) as [ok, val]: ok is err == nil.  It accepts
\* "nan", an optionally signed "inf" or "infinity", and an optionally signed
\* run of decimal digits; the whole string must be consumed.
ParseFloat(s) ==
    LET signed == s # <<>> /\ Head(s) \in {"+", "-"}
        body == IF signed THEN Tail(s) ELSE s
        neg == signed /\ Head(s) = "-"
        inf == CommonPrefixLen(body, <<"i", "n", "f", "i", "n", "i", "t", "y">>)
    IN  IF inf \in {3, 8} /\ inf = Len(body)
            THEN [ok |-> TRUE, val |-> IF neg THEN NegInf ELSE PosInf]
        ELSE IF ~signed /\ s = <<"n", "a", "n">>
            THEN [ok |-> TRUE, val |-> NaN]
        ELSE IF body # <<>> /\ AllAsciiDigits(body)
            THEN [ok |-> TRUE,
                  val |-> FInt(IF neg THEN -DecimalVal(body) ELSE DecimalVal(body))]
        ELSE [ok |-> FALSE, val |-> FInt(0)]

\* fmt's %d verb
FormatD(n) == ToString(n)

\* fmt's %.2f verb on a finite value below the 10^300 scale
FormatF2(x) ==
    LET a == IF x.e < 0 THEN 0 ELSE Abs(x.n)
        twice == (2 * 100 * a) \div x.d
        floor == twice \div 2
        exact == (2 * 100 * a) % x.d = 0
        h == IF twice % 2 = 0 THEN floor
             ELSE IF exact /\ floor % 2 = 0 THEN floor ELSE floor + 1
        frac == h % 100
    IN  (IF x.n < 0 THEN "-" ELSE "") \o ToString(h \div 100) \o "." \o
        (IF frac < 10 THEN "0" ELSE "") \o ToString(frac)

----------------------------------------------------------------------------
(* package validator *)

maxVolumeCm3 == FInt(15000)
minWeight == FInt(0)
zipcodeLength == 8
minZipcodeLength == 4

\* ValidateZipcode testing for emptiness after the normalization
ValidateZipcodeRequiredAfterNormalize(zip, field) ==
    LET normalized == Normalize(zip)
    IN  IF normalized = <<>> THEN field \o " is required"
        ELSE IF ByteLen(normalized) < minZipcodeLength
                    \/ ByteLen(normalized) > zipcodeLength
            THEN field \o " must be a valid zipcode format (4-8 digits)"
        ELSE IF \E i \in 1..Len(normalized) : ~IsDigit(normalized[i])
            THEN field \o " must be a valid zipcode format (4-8 digits)"
        ELSE Nil

\* ValidateZipcode without the upper length bound
ValidateZipcodeNoMaximum(zip, field) ==
    IF zip = <<>> THEN field \o " is required"
    ELSE LET normalized == Normalize(zip)
         IN  IF ByteLen(normalized) < minZipcodeLength
                 THEN field \o " must be a valid zipcode format (4-8 digits)"
             ELSE IF \E i \in 1..Len(normalized) : ~IsDigit(normalized[i])
                 THEN field \o " must be a valid zipcode format (4-8 digits)"
             ELSE Nil

\* ValidateZipcode(zipcode, fieldName): the error message, or Nil
ValidateZipcode(zip, field) ==
    IF zip = <<>> THEN field \o " is required"
    ELSE LET normalized == Normalize(zip)
         IN  IF ByteLen(normalized) < minZipcodeLength
                    \/ ByteLen(normalized) > zipcodeLength
                 THEN field \o " must be a valid zipcode format (4-8 digits)"
             ELSE IF \E i \in 1..Len(normalized) : ~IsDigit(normalized[i])
                 THEN field \o " must be a valid zipcode format (4-8 digits)"
             ELSE Nil

\* ValidateWeight letting a weight of zero through
ValidateWeightNegativeOnly(weight) ==
    IF FLt(weight, minWeight) THEN "weight must be greater than 0" ELSE Nil

\* ValidateWeight(weight)
ValidateWeight(weight) ==
    IF FLe(weight, minWeight) THEN "weight must be greater than 0" ELSE Nil

\* ValidateDimensions checking the height first and the length last
ValidateDimensionsHeightFirst(length, width, height) ==
    IF FLe(height, FInt(0)) THEN "dimensions.height must be positive"
    ELSE IF FLe(width, FInt(0)) THEN "dimensions.width must be positive"
    ELSE IF FLe(length, FInt(0)) THEN "dimensions.length must be positive"
    ELSE LET volume == FMul(FMul(length, width), height)
         IN  IF FGt(volume, maxVolumeCm3)
                 THEN "package volume (" \o FormatF2(volume)
                      \o " cm³) exceeds maximum allowed volume ("
                      \o FormatF2(maxVolumeCm3) \o " cm³)"
             ELSE Nil

\* ValidateDimensions refusing a volume equal to the cap
ValidateDimensionsExclusiveCap(length, width, height) ==
    IF FLe(length, FInt(0)) THEN "dimensions.length must be positive"
    ELSE IF FLe(width, FInt(0)) THEN "dimensions.width must be positive"
    ELSE IF FLe(height, FInt(0)) THEN "dimensions.height must be positive"
    ELSE LET volume == FMul(FMul(length, width), height)
         IN  IF ~FLt(volume, maxVolumeCm3)
                 THEN "package volume (" \o FormatF2(volume)
                      \o " cm³) exceeds maximum allowed volume ("
                      \o FormatF2(maxVolumeCm3) \o " cm³)"
             ELSE Nil

\* ValidateDimensions(length, width, height)
ValidateDimensions(length, width, height) ==
    IF FLe(length, FInt(0)) THEN "dimensions.length must be positive"
    ELSE IF FLe(width, FInt(0)) THEN "dimensions.width must be positive"
    ELSE IF FLe(height, FInt(0)) THEN "dimensions.height must be positive"
    ELSE LET volume == FMul(FMul(length, width), height)
         IN  IF FGt(volume, maxVolumeCm3)
                 THEN "package volume (" \o FormatF2(volume)
                      \o " cm³) exceeds maximum allowed volume ("
                      \o FormatF2(maxVolumeCm3) \o " cm³)"
             ELSE Nil

\* CalculateVolume leaving the height out
CalculateVolumeBaseArea(length, width, height) == FMul(length, width)

\* CalculateVolume multiplying the magnitudes of the dimensions
CalculateVolumeOfMagnitudes(length, width, height) ==
    LET v == FMul(FMul(length, width), height)
    IN  IF Sign(v) < 0 THEN FNeg(v) ELSE v

\* CalculateVolume(length, width, height)
CalculateVolume(length, width, height) == FMul(FMul(length, width), height)

----------------------------------------------------------------------------
(* package service *)

baseCostCents == FInt(1000)
weightSurchargeRate == Fin(10, 100)
weightUnit == Fin(5, 10)
volumeSurchargeRate == Fin(5, 100)
volumeUnit == FInt(1000)
expressSurchargeRate == Fin(50, 100)
standardDeliveryDays == 2
expressDeliveryDays == 1

\* calculateBaseCost with the flat cost up to and including distance 1000
calculateBaseCostInclusive(originZipcode, destinationZipcode) ==
    LET originNum == ParseFloat(Normalize(originZipcode))
        destNum == ParseFloat(Normalize(destinationZipcode))
        diff == FSub(originNum.val, destNum.val)
        distance == IF FLt(diff, FInt(0)) THEN FNeg(diff) ELSE diff
        distanceFactor == FAdd(FInt(1), FDiv(distance, FInt(10000)))
    IN  IF ~originNum.ok \/ ~destNum.ok THEN baseCostCents
        ELSE IF FLe(distance, FInt(1000)) THEN baseCostCents
        ELSE FMul(baseCostCents, distanceFactor)

\* calculateBaseCost(originZipcode, destinationZipcode)
calculateBaseCost(originZipcode, destinationZipcode) ==
    LET originNormalized == Normalize(originZipcode)
        destNormalized == Normalize(destinationZipcode)
        originNum == ParseFloat(originNormalized)
        destNum == ParseFloat(destNormalized)
        diff == FSub(originNum.val, destNum.val)
        distance == IF FLt(diff, FInt(0)) THEN FNeg(diff) ELSE diff
        distanceFactor == FAdd(FInt(1), FDiv(distance, FInt(10000)))
    IN  IF ~originNum.ok \/ ~destNum.ok THEN baseCostCents
        ELSE IF FLt(distance, FInt(1000)) THEN baseCostCents
        ELSE FMul(baseCostCents, distanceFactor)

\* The least integer not below the finite value x
FCeil(x) == FInt(-((-x.n) \div x.d))

\* calculateShippingDetails charging every started unit in full
calculateShippingDetailsWholeUnits(base, weight, volume, isExpress) ==
    LET weightMultiplier == FCeil(FDiv(weight, weightUnit))
        weightSurcharge == FMul(FMul(base, weightSurchargeRate), weightMultiplier)
        volumeMultiplier == FCeil(FDiv(volume, volumeUnit))
        volumeSurcharge == FMul(FMul(base, volumeSurchargeRate), volumeMultiplier)
        subtotal == FAdd(FAdd(base, weightSurcharge), volumeSurcharge)
        expressSurcharge == IF isExpress THEN FMul(subtotal, expressSurchargeRate)
                            ELSE FInt(0)
    IN  [BaseCost |-> base,
         WeightSurcharge |-> weightSurcharge,
         VolumeSurcharge |-> volumeSurcharge,
         ExpressSurcharge |-> expressSurcharge,
         TotalCost |-> FAdd(subtotal, expressSurcharge),
         EstimatedDays |-> IF isExpress THEN expressDeliveryDays
                           ELSE standardDeliveryDays]

\* calculateShippingDetails taking the express surcharge on the base cost
calculateShippingDetailsExpressOnBase(base, weight, volume, isExpress) ==
    LET weightSurcharge ==
            FMul(FMul(base, weightSurchargeRate), FDiv(weight, weightUnit))
        volumeSurcharge ==
            FMul(FMul(base, volumeSurchargeRate), FDiv(volume, volumeUnit))
        subtotal == FAdd(FAdd(base, weightSurcharge), volumeSurcharge)
        expressSurcharge == IF isExpress THEN FMul(base, expressSurchargeRate)
                            ELSE FInt(0)
    IN  [BaseCost |-> base,
         WeightSurcharge |-> weightSurcharge,
         VolumeSurcharge |-> volumeSurcharge,
         ExpressSurcharge |-> expressSurcharge,
         TotalCost |-> FAdd(subtotal, expressSurcharge),
         EstimatedDays |-> IF isExpress THEN expressDeliveryDays
                           ELSE standardDeliveryDays]

\* calculateShippingDetails(baseCost, weight, volume, isExpress)
calculateShippingDetails(base, weight, volume, isExpress) ==
    LET weightMultiplier == FDiv(weight, weightUnit)
        weightSurcharge == FMul(FMul(base, weightSurchargeRate), weightMultiplier)
        volumeMultiplier == FDiv(volume, volumeUnit)
        volumeSurcharge == FMul(FMul(base, volumeSurchargeRate), volumeMultiplier)
        subtotal == FAdd(FAdd(base, weightSurcharge), volumeSurcharge)
        expressSurcharge == IF isExpress THEN FMul(subtotal, expressSurchargeRate)
                            ELSE FInt(0)
        totalCost == FAdd(subtotal, expressSurcharge)
        estimatedDays == IF isExpress THEN expressDeliveryDays
                         ELSE standardDeliveryDays
    IN  [BaseCost |-> base,
         WeightSurcharge |-> weightSurcharge,
         VolumeSurcharge |-> volumeSurcharge,
         ExpressSurcharge |-> expressSurcharge,
         TotalCost |-> totalCost,
         EstimatedDays |-> estimatedDays]

\* buildResponse marking up the base cost only for the express option
buildResponseMarkupOnBase(d, isExpress) ==
    LET standardCost == FAdd(FAdd(d.BaseCost, d.WeightSurcharge), d.VolumeSurcharge)
        expressCost == FAdd(standardCost, FMul(d.BaseCost, expressSurchargeRate))
    IN  [ShippingCost |-> IF isExpress THEN expressCost ELSE standardCost,
         EstimatedDeliveryTime |->
             IF isExpress THEN FormatD(expressDeliveryDays) \o " dia"
             ELSE FormatD(standardDeliveryDays) \o " dias",
         AvailableServices |-> <<"standard", "express">>,
         ShippingOptions |->
             << [Service |-> "standard", Cost |-> standardCost,
                 Time |-> FormatD(standardDeliveryDays) \o " dias"],
                [Service |-> "express", Cost |-> expressCost,
                 Time |-> FormatD(expressDeliveryDays) \o " dia"] >>]

\* buildResponse listing only the service the request selected
buildResponseSelectedOnly(d, isExpress) ==
    LET standardCost == FAdd(FAdd(d.BaseCost, d.WeightSurcharge), d.VolumeSurcharge)
        expressCost == FMul(standardCost, FAdd(FInt(1), expressSurchargeRate))
        standardOption == [Service |-> "standard", Cost |-> standardCost,
                           Time |-> FormatD(standardDeliveryDays) \o " dias"]
        expressOption == [Service |-> "express", Cost |-> expressCost,
                          Time |-> FormatD(expressDeliveryDays) \o " dia"]
    IN  [ShippingCost |-> IF isExpress THEN expressCost ELSE standardCost,
         EstimatedDeliveryTime |->
             IF isExpress THEN expressOption.Time ELSE standardOption.Time,
         AvailableServices |-> <<"standard", "express">>,
         ShippingOptions |->
             IF isExpress THEN <<expressOption>> ELSE <<standardOption>>]

\* buildResponse answering with the standard cost whatever was selected
buildResponseSelectsStandard(d, isExpress) ==
    LET standardCost == FAdd(FAdd(d.BaseCost, d.WeightSurcharge), d.VolumeSurcharge)
        expressCost == FMul(standardCost, FAdd(FInt(1), expressSurchargeRate))
    IN  [ShippingCost |-> standardCost,
         EstimatedDeliveryTime |->
             IF isExpress THEN FormatD(expressDeliveryDays) \o " dia"
             ELSE FormatD(standardDeliveryDays) \o " dias",
         AvailableServices |-> <<"standard", "express">>,
         ShippingOptions |->
             << [Service |-> "standard", Cost |-> standardCost,
                 Time |-> FormatD(standardDeliveryDays) \o " dias"],
                [Service |-> "express", Cost |-> expressCost,
                 Time |-> FormatD(expressDeliveryDays) \o " dia"] >>]

\* buildResponse copying the total and the days stored in the breakdown
buildResponseFromStoredTotal(d, isExpress) ==
    LET standardCost == FAdd(FAdd(d.BaseCost, d.WeightSurcharge), d.VolumeSurcharge)
        expressCost == FMul(standardCost, FAdd(FInt(1), expressSurchargeRate))
    IN  [ShippingCost |-> d.TotalCost,
         EstimatedDeliveryTime |->
             IF d.EstimatedDays > 1 THEN FormatD(d.EstimatedDays) \o " dias"
             ELSE FormatD(d.EstimatedDays) \o " dia",
         AvailableServices |-> <<"standard", "express">>,
         ShippingOptions |->
             << [Service |-> "standard", Cost |-> standardCost,
                 Time |-> FormatD(standardDeliveryDays) \o " dias"],
                [Service |-> "express", Cost |-> expressCost,
                 Time |-> FormatD(expressDeliveryDays) \o " dia"] >>]

\* buildResponse writing every delivery time in the plural
buildResponsePluralDays(d, isExpress) ==
    LET standardCost == FAdd(FAdd(d.BaseCost, d.WeightSurcharge), d.VolumeSurcharge)
        expressCost == FMul(standardCost, FAdd(FInt(1), expressSurchargeRate))
    IN  [ShippingCost |-> IF isExpress THEN expressCost ELSE standardCost,
         EstimatedDeliveryTime |->
             IF isExpress THEN FormatD(expressDeliveryDays) \o " dias"
             ELSE FormatD(standardDeliveryDays) \o " dias",
         AvailableServices |-> <<"standard", "express">>,
         ShippingOptions |->
             << [Service |-> "standard", Cost |-> standardCost,
                 Time |-> FormatD(standardDeliveryDays) \o " dias"],
                [Service |-> "express", Cost |-> expressCost,
                 Time |-> FormatD(expressDeliveryDays) \o " dias"] >>]

\* buildResponse(details, isExpress)
buildResponse(d, isExpress) ==
    LET standardCost == FAdd(FAdd(d.BaseCost, d.WeightSurcharge), d.VolumeSurcharge)
        expressCost == FMul(standardCost, FAdd(FInt(1), expressSurchargeRate))
        shippingCost == IF isExpress THEN expressCost ELSE standardCost
        estimatedTime ==
            IF isExpress
                THEN IF expressDeliveryDays > 1
                         THEN FormatD(expressDeliveryDays) \o " dias"
                         ELSE FormatD(expressDeliveryDays) \o " dia"
                ELSE FormatD(standardDeliveryDays) \o " dias"
        shippingOptions ==
            << [Service |-> "standard", Cost |-> standardCost,
                Time |-> FormatD(standardDeliveryDays) \o " dias"],
               [Service |-> "express", Cost |-> expressCost,
                Time |-> FormatD(expressDeliveryDays) \o " dia"] >>
    IN  [ShippingCost |-> shippingCost,
         EstimatedDeliveryTime |-> estimatedTime,
         AvailableServices |-> <<"standard", "express">>,
         ShippingOptions |-> shippingOptions]

\* A failed check of CalculateShipping: unprefixed error
ValidationFailureUnwrapped(param, e) ==
    [resp |-> None, err |-> e, warnings |-> <<param>>]

\* A failed check of CalculateShipping: LogWarning with the param, then
\* return nil, fmt.Errorf("invalid <param>: %w", err)
ValidationFailure(param, e) ==
    [resp |-> None, err |-> "invalid " \o param \o ": " \o e, warnings |-> <<param>>]

\* CalculateShipping validating the weight before the destination zipcode
ServiceCalculateShippingWeightFirst(r) ==
    LET errOrigin == ValidateZipcode(r.OriginZipcode, "origin_zipcode")
        errDest == ValidateZipcode(r.DestinationZipcode, "destination_zipcode")
        errWeight == ValidateWeight(r.Weight)
        volume == CalculateVolume(r.Length, r.Width, r.Height)
        errDims == ValidateDimensions(r.Length, r.Width, r.Height)
        base == calculateBaseCost(r.OriginZipcode, r.DestinationZipcode)
        det == calculateShippingDetails(base, r.Weight, volume, r.IsExpress)
    IN  IF errOrigin # Nil THEN ValidationFailure("origin_zipcode", errOrigin)
        ELSE IF errWeight # Nil THEN ValidationFailure("weight", errWeight)
        ELSE IF errDest # Nil THEN ValidationFailure("destination_zipcode", errDest)
        ELSE IF errDims # Nil THEN ValidationFailure("dimensions", errDims)
        ELSE [resp |-> buildResponse(det, r.IsExpress), err |-> Nil, warnings |-> <<>>]

\* CalculateShipping without the destination zipcode check
ServiceCalculateShippingNoDestination(r) ==
    LET errOrigin == ValidateZipcode(r.OriginZipcode, "origin_zipcode")
        errWeight == ValidateWeight(r.Weight)
        volume == CalculateVolume(r.Length, r.Width, r.Height)
        errDims == ValidateDimensions(r.Length, r.Width, r.Height)
        base == calculateBaseCost(r.OriginZipcode, r.DestinationZipcode)
        det == calculateShippingDetails(base, r.Weight, volume, r.IsExpress)
    IN  IF errOrigin # Nil THEN ValidationFailure("origin_zipcode", errOrigin)
        ELSE IF errWeight # Nil THEN ValidationFailure("weight", errWeight)
        ELSE IF errDims # Nil THEN ValidationFailure("dimensions", errDims)
        ELSE [resp |-> buildResponse(det, r.IsExpress), err |-> Nil, warnings |-> <<>>]

\* The outcome of ShippingService.CalculateShipping(ctx, req): the response,
\* the error message and the params of the warnings it logged.
ServiceCalculateShipping(r) ==
    LET errOrigin == ValidateZipcode(r.OriginZipcode, "origin_zipcode")
        errDest == ValidateZipcode(r.DestinationZipcode, "destination_zipcode")
        errWeight == ValidateWeight(r.Weight)
        volume == CalculateVolume(r.Length, r.Width, r.Height)
        errDims == ValidateDimensions(r.Length, r.Width, r.Height)
        base == calculateBaseCost(r.OriginZipcode, r.DestinationZipcode)
        det == calculateShippingDetails(base, r.Weight, volume, r.IsExpress)
        response == buildResponse(det, r.IsExpress)
    IN  IF errOrigin # Nil THEN ValidationFailure("origin_zipcode", errOrigin)
        ELSE IF errDest # Nil THEN ValidationFailure("destination_zipcode", errDest)
        ELSE IF errWeight # Nil THEN ValidationFailure("weight", errWeight)
        ELSE IF errDims # Nil THEN ValidationFailure("dimensions", errDims)
        ELSE [resp |-> response, err |-> Nil, warnings |-> <<>>]

----------------------------------------------------------------------------
(* package handler *)

\* The request every field of which has its zero value.
ZeroRequest ==
    [OriginZipcode |-> <<>>, DestinationZipcode |-> <<>>, Weight |-> FInt(0),
     Length |-> FInt(0), Width |-> FInt(0), Height |-> FInt(0),
     IsExpress |-> FALSE]

\* Decode taking the end of input for an object without fields
JsonDecodeLenient(body) ==
    IF body.kind = "object" THEN [err |-> Nil, req |-> body.req]
    ELSE IF body.kind \in {"empty", "absent"}
        THEN [err |-> Nil, req |-> ZeroRequest]
    ELSE [err |-> "invalid character 'i' looking for beginning of value",
          req |-> ZeroRequest]

\* json.NewDecoder(r.Body).Decode(&req).  A body of kind "object" is a JSON
\* object carrying the fields of body.req (a field it leaves out is the zero
\* value there); no other kind of body decodes: "malformed" is text that is
\* not JSON, "empty" has no bytes, "absent" is the nil body, and "mistyped"
\* is an object with a string where a number belongs.
JsonDecode(body) ==
    IF body.kind = "object" THEN [err |-> Nil, req |-> body.req]
    ELSE IF body.kind \in {"empty", "absent"}
        THEN [err |-> "EOF", req |-> ZeroRequest]
    ELSE IF body.kind = "malformed"
        THEN [err |-> "invalid character 'i' looking for beginning of value",
              req |-> ZeroRequest]
    ELSE [err |-> "json: cannot unmarshal string into Go struct field "
                     \o "CalculateShippingRequest.weight of type float64",
          req |-> ZeroRequest]

\* json.NewEncoder(w).Encode(data) for the two things the handler sends: a
\* map with the key "error", or a response, whose fields go out under their
\* json tags.  A float64 that is NaN or infinite cannot be encoded, and then
\* nothing is written.
JsonEncode(data) ==
    IF "error" \in DOMAIN data THEN [err |-> Nil, doc |-> data]
    ELSE IF \/ ~IsFin(data.ShippingCost)
            \/ \E i \in DOMAIN data.ShippingOptions :
                  ~IsFin(data.ShippingOptions[i].Cost)
        THEN [err |-> "json: unsupported value", doc |-> None]
    ELSE [err |-> Nil,
          doc |-> [shipping_cost |-> data.ShippingCost,
                   estimated_delivery_time |-> data.EstimatedDeliveryTime,
                   available_services |-> data.AvailableServices,
                   shipping_options |->
                       [i \in DOMAIN data.ShippingOptions |->
                           [service |-> data.ShippingOptions[i].Service,
                            cost |-> data.ShippingOptions[i].Cost,
                            time |-> data.ShippingOptions[i].Time]]]]

\* One log entry: who wrote it, at which level, with which message.
LogEntry(by, level, msg) == [by |-> by, level |-> level, msg |-> msg]

\* The handler logging with logger.LogWarning instead
HandlerLogWarning(msg) == LogEntry("handler", "warn", msg)

\* logger.LogError(h.logger, ...) of the handler
HandlerLogError(msg) == LogEntry("handler", "error", msg)

\* ShippingHandler.writeJSON(ctx, w, status, data) on the exchange h
writeJSON(h, status, data) ==
    LET enc == JsonEncode(data)
    IN  [h EXCEPT
            !.statuses = Append(@, status),
            !.sent = IF enc.err = Nil THEN enc.doc ELSE @,
            !.log = IF enc.err = Nil THEN @
                    ELSE Append(@, HandlerLogError("Erro ao codificar resposta JSON"))]

\* What ShippingService.CalculateShipping logs on the way to outcome out: a
\* warning for the failing parameter, or the two entries of a calculation.
ServiceLog(out) ==
    IF out.err # Nil
        THEN [i \in DOMAIN out.warnings |->
                 LogEntry("service", "warn", "Solicitação com parâmetros inválidos")]
        ELSE << LogEntry("service", "info", "Detalhes do cálculo"),
                LogEntry("service", "info", "Resultado do cálculo") >>

\* The four shipment instruments before anything was recorded.
NoRecords ==
    [shipmentCalculate |-> 0, shipmentCalculateError |-> 0,
     shipmentCalculateTime |-> <<>>, shipmentCalculateCostDistribution |-> <<>>]

\* telemetry.IncrementShipmentCalculate(ctx)
IncrementShipmentCalculate(m) == [m EXCEPT !.shipmentCalculate = @ + 1]

\* telemetry.RecordShipmentCalculateTime(ctx, timeMs)
RecordShipmentCalculateTime(m, timeMs) ==
    [m EXCEPT !.shipmentCalculateTime = Append(@, timeMs)]

\* telemetry.RecordShipmentCalculateCostDistribution(ctx, cost)
RecordShipmentCalculateCostDistribution(m, cost) ==
    [m EXCEPT !.shipmentCalculateCostDistribution = Append(@, cost)]

\* The error helper adding to the request counter instead
IncrementShipmentCalculateErrorOnRequests(m) ==
    [m EXCEPT !.shipmentCalculate = @ + 1]

\* telemetry.IncrementShipmentCalculateError(ctx)
IncrementShipmentCalculateError(m) == [m EXCEPT !.shipmentCalculateError = @ + 1]

\* The handler between two requests, before the first.
IdleHandler ==
    [pc |-> "idle", body |-> None, req |-> None, outcome |-> None,
     serviceCalls |-> 0, statuses |-> <<>>, sent |-> None, log |-> <<>>,
     atArrival |-> NoRecords]

----------------------------------------------------------------------------
(* inputs *)

\* Bounds of the generated inputs.
MaxTailLen == 2
MaxDigitRun == 8
MaxBaseLen == 4
MaxWeightQuarters == 4
MaxVolumeSteps == 6

\* All strings of at most n runes over the alphabet A
RECURSIVE StringsUpTo(_, _)
StringsUpTo(A, n) ==
    IF n = 0 THEN {<<>>}
    ELSE LET shorter == StringsUpTo(A, n - 1)
         IN  shorter \cup {Append(s, c) : s \in shorter, c \in A}

\* The first p runes of "123456789012"
DigitRun(p) ==
    SubSeq(<<"1", "2", "3", "4", "5", "6", "7", "8", "9", "0", "1", "2">>, 1, p)

ZipAlphabet == {"1", "9", "-", " ", "a", "\n", "U+0663", "U+FF11"}

\* Zipcodes for ValidateZipcode: a run of digits between one optional rune and
\* a short tail, so that every length from 0 to beyond 8 occurs with digits,
\* separators, letters, a newline and non-ASCII digits in it.
ZipInputs ==
    {h \o DigitRun(p) \o t : h \in StringsUpTo(ZipAlphabet, 1),
                             p \in 0..MaxDigitRun,
                             t \in StringsUpTo(ZipAlphabet, MaxTailLen)}

FieldNames == {"origin_zipcode", "destination_zipcode"}

\* Zipcodes for calculateBaseCost: short strings over digits, a separator, a
\* sign and a letter, and the strings of the unit tests and of ParseFloat's
\* special values.
BaseSamples ==
    { <<>>, <<"a", "b", "c">>, <<"i", "n", "f">>, <<"n", "a", "n">>,
      <<"+", "i", "n", "f">>, <<"i", "n", "f", "i">>, <<"U+0663", "U+0663">>,
      <<"0", "1", "0", "0", "0", "-", "0", "0", "0">>,
      <<"1", "2", " ", "3", "4", "5", "-", "6", "7", "8">>,
      <<"1", "4", "1", "4">>, <<"2", "0", "0", "0", "0">> }

BaseOrigins ==
    StringsUpTo({"0", "1", "9", "-", "+", "a"}, MaxBaseLen) \cup BaseSamples

BaseDestinations ==
    { <<>>, <<"0">>, <<"1">>, <<"1", "0", "0", "0">>, <<"1", "9", "9", "9">>,
      <<"1", "4", "2", "8">>, <<"1", "0", "0", "0", "0">>,
      <<"0", "2", "0", "0", "0", "-", "0", "0", "0">>,
      <<"8", "7", "-", "6", "5", "4", " ", "3", "2", "1">>,
      <<"a", "b", "c">>, <<"i", "n", "f">>, <<"n", "a", "n">> }

\* Zipcodes of the requests handed to CalculateShipping
RequestOrigins ==
    { <<>>, <<"1", "2", "3">>, <<"1", "4", "1", "4">>,
      <<"0", "1", "0", "0", "0", "-", "0", "0", "0">>,
      <<"1", "2", "3", "4", "5", "-", "a", "b", "c">>,
      <<"U+0663", "U+0663">>, <<"1", "2", "3", "4", "5", "6", "7", "8", "9">> }

RequestDestinations ==
    { <<>>, <<" ", " ", " ">>, <<"1", "4", "2", "8">>,
      <<"0", "2", "0", "0", "0", "-", "0", "0", "0">>,
      <<"1", "2", "3", "4", "5", "\n", "6", "7">> }

\* Weights in quarters of a kilogram from -0.25, 2.5, and the two extremes a
\* JSON number can carry: 1e-300 and 1e308.
Weights ==
    {Fin(k, 4) : k \in -1..MaxWeightQuarters}
        \cup {Fin(5, 2), Scaled(1, 1, -1), Scaled(100000000, 1, 1)}

Lengths == {FInt(-10), FInt(0), FInt(10), FInt(15), FInt(25), FInt(30)}
Widths == {FInt(-5), FInt(0), FInt(8), FInt(10), FInt(20), FInt(30)}
Heights == {FInt(-2), FInt(0), FInt(2), FInt(10), FInt(20), FInt(30),
            Scaled(1, 1, -1)}

Requests ==
    [OriginZipcode : RequestOrigins, DestinationZipcode : RequestDestinations,
     Weight : Weights, Length : Lengths, Width : Widths, Height : Heights,
     IsExpress : BOOLEAN]

\* Arguments of calculateShippingDetails
DetailBaseCosts == {FInt(0), FInt(1000), FInt(1100), Fin(20001, 10)}
DetailWeights == {Fin(k, 4) : k \in 0..MaxWeightQuarters} \cup {Fin(5, 2)}
DetailVolumes == {FInt(250 * k) : k \in 0..MaxVolumeSteps} \cup {FInt(5000), FInt(15000)}

\* The request of the worked example: 1414 to 1428, 0.5 kg, 15 x 8 x 2 cm.
ExampleRequest(isExpress) ==
    [OriginZipcode |-> <<"1", "4", "1", "4">>,
     DestinationZipcode |-> <<"1", "4", "2", "8">>,
     Weight |-> Fin(1, 2),
     Length |-> FInt(15), Width |-> FInt(8), Height |-> FInt(2),
     IsExpress |-> isExpress]

\* Requests the handler serves one after the other
MaxRequests == 3

\* Milliseconds a calculation may take on the handler's clock
MaxElapsedMs == 1

\* Requests inside well-formed bodies: the worked example, standard and
\* expedited, a request with every field missing, a weight of zero, a weight
\* of 1e308, and a volume over the cap.
HandlerRequests ==
    { ExampleRequest(FALSE), ExampleRequest(TRUE), ZeroRequest,
      [ExampleRequest(FALSE) EXCEPT !.Weight = FInt(0)],
      [ExampleRequest(FALSE) EXCEPT !.Weight = Scaled(100000000, 1, 1)],
      [ExampleRequest(TRUE) EXCEPT !.Length = FInt(30), !.Width = FInt(30),
                                   !.Height = FInt(20)] }

\* Request bodies
Bodies ==
    {[kind |-> "object", req |-> r] : r \in HandlerRequests}
        \cup {[kind |-> k, req |-> None] :
                 k \in {"malformed", "empty", "absent", "mistyped"}}

\* Calls made on the one service
MaxCalls == 3
Calls == 1..MaxCalls

\* Requests of those calls: the worked example, an expedited request over a
\* long distance, and requests refused for the origin, the weight, the
\* volume and negative dimensions.
CallRequests ==
    { ExampleRequest(FALSE),
      [ExampleRequest(TRUE) EXCEPT
          !.OriginZipcode = <<"0", "1", "0", "0", "0", "-", "0", "0", "0">>,
          !.DestinationZipcode = <<"0", "2", "0", "0", "0", "-", "0", "0", "0">>],
      [ExampleRequest(FALSE) EXCEPT !.OriginZipcode = <<"1", "2", "3">>],
      [ExampleRequest(FALSE) EXCEPT !.Weight = FInt(0)],
      [ExampleRequest(TRUE) EXCEPT !.Length = FInt(30), !.Width = FInt(30),
                                   !.Height = FInt(20)],
      [ExampleRequest(FALSE) EXCEPT !.Length = FInt(-10), !.Width = FInt(-5),
                                    !.Height = FInt(-2)] }

\* Dimensions for a direct ValidateDimensions call: those of the requests and
\* 25.5 cm, whose products are not whole numbers.
DimensionInputs ==
    [length : Lengths \cup {Fin(51, 2)},
     width : Widths \cup {Fin(51, 2)},
     height : Heights \cup {Fin(51, 2)}]

\* Breakdowns as buildResponse may be handed them: the stored express
\* surcharge, total and days need not be those calculateShippingDetails derives.
Breakdowns ==
    [BaseCost : {FInt(1000), FInt(1100)},
     WeightSurcharge : {FInt(0), FInt(200)},
     VolumeSurcharge : {FInt(0), FInt(50)},
     ExpressSurcharge : {FInt(0), FInt(625)},
     TotalCost : {FInt(1250), FInt(1875)},
     EstimatedDays : {1, 2}]

DetailInputs ==
    [baseCost : DetailBaseCosts, weight : DetailWeights,
     volume : DetailVolumes, isExpress : BOOLEAN]

----------------------------------------------------------------------------
(* specifications *)

\* No request, no direct call.
NoService == req = None /\ resp = None /\ err = Nil /\ warnings = <<>>
NoZipcode == zipcode = <<>> /\ fieldName = "" /\ zipErr = Nil
NoBaseCost == origin = <<>> /\ destination = <<>> /\ baseCost = None
NoDetails == dIn = None /\ details = None /\ built = None
NoPair == other = None /\ otherBuilt = None
NoDimensions == dims = None /\ dimErr = Nil
NoCalls == calls = <<>> /\ svc = <<>> /\ logged = {}
NoHandler == http = None /\ metrics = None /\ served = 0
NoTelemetry == telemetry = None /\ getters = <<>>

serviceVars == <<req, resp, err, warnings>>
zipcodeVars == <<zipcode, fieldName, zipErr>>
baseCostVars == <<origin, destination, baseCost>>
detailsVars == <<dIn, details, built>>
pairVars == <<other, otherBuilt>>
dimensionsVars == <<dims, dimErr>>
callsVars == <<calls, svc, logged>>
handlerVars == <<http, metrics, served>>
telemetryVars == <<telemetry, getters>>

\* A request arrives at the service.
Init ==
    /\ pc = "start"
    /\ req \in Requests
    /\ resp = None /\ err = Nil /\ warnings = <<>>
    /\ NoZipcode /\ NoBaseCost /\ NoDetails /\ NoPair
    /\ NoDimensions /\ NoCalls /\ NoHandler /\ NoTelemetry

\* ShippingService.CalculateShipping(ctx, req)
CalculateShipping ==
    /\ pc = "start"
    /\ LET out == ServiceCalculateShipping(req)
       IN  /\ resp' = out.resp
           /\ err' = out.err
           /\ warnings' = out.warnings
    /\ pc' = "done"
    /\ UNCHANGED <<req, zipcodeVars, baseCostVars, detailsVars, pairVars,
                   dimensionsVars, callsVars, handlerVars,
                   telemetryVars>>

Next == CalculateShipping

Spec == Init /\ [][Next]_vars

\* ValidateZipcode called on its own.
InitZipcode ==
    /\ pc = "start"
    /\ zipcode \in ZipInputs
    /\ fieldName \in FieldNames
    /\ zipErr = Nil
    /\ NoService /\ NoBaseCost /\ NoDetails /\ NoPair
    /\ NoDimensions /\ NoCalls /\ NoHandler /\ NoTelemetry

CallValidateZipcode ==
    /\ pc = "start"
    /\ zipErr' = ValidateZipcode(zipcode, fieldName)
    /\ pc' = "done"
    /\ UNCHANGED <<zipcode, fieldName, serviceVars, baseCostVars, detailsVars,
                   pairVars, dimensionsVars, callsVars, handlerVars,
                   telemetryVars>>

NextZipcode == CallValidateZipcode

SpecZipcode == InitZipcode /\ [][NextZipcode]_vars

\* calculateBaseCost called on its own.
InitBaseCost ==
    /\ pc = "start"
    /\ origin \in BaseOrigins
    /\ destination \in BaseDestinations
    /\ baseCost = None
    /\ NoService /\ NoZipcode /\ NoDetails /\ NoPair
    /\ NoDimensions /\ NoCalls /\ NoHandler /\ NoTelemetry

CallCalculateBaseCost ==
    /\ pc = "start"
    /\ baseCost' = calculateBaseCost(origin, destination)
    /\ pc' = "done"
    /\ UNCHANGED <<origin, destination, serviceVars, zipcodeVars, detailsVars,
                   pairVars, dimensionsVars, callsVars, handlerVars,
                   telemetryVars>>

NextBaseCost == CallCalculateBaseCost

SpecBaseCost == InitBaseCost /\ [][NextBaseCost]_vars

\* calculateShippingDetails and then buildResponse, called on their own.
InitDetails ==
    /\ pc = "start"
    /\ dIn \in DetailInputs
    /\ details = None /\ built = None
    /\ NoService /\ NoZipcode /\ NoBaseCost /\ NoPair
    /\ NoDimensions /\ NoCalls /\ NoHandler /\ NoTelemetry

CallCalculateShippingDetails ==
    /\ pc = "start"
    /\ details' = calculateShippingDetails(dIn.baseCost, dIn.weight, dIn.volume,
                                           dIn.isExpress)
    /\ pc' = "details"
    /\ UNCHANGED <<dIn, built, serviceVars, zipcodeVars, baseCostVars,
                   pairVars, dimensionsVars, callsVars, handlerVars,
                   telemetryVars>>

CallBuildResponse ==
    /\ pc = "details"
    /\ built' = buildResponse(details, dIn.isExpress)
    /\ pc' = "done"
    /\ UNCHANGED <<dIn, details, serviceVars, zipcodeVars, baseCostVars,
                   pairVars, dimensionsVars, callsVars, handlerVars,
                   telemetryVars>>

NextDetails == CallCalculateShippingDetails \/ CallBuildResponse

SpecDetails == InitDetails /\ [][NextDetails]_vars

\* buildResponse called on each of two breakdowns with the same flag.
InitBuild ==
    /\ pc = "details"
    /\ dIn \in [isExpress : BOOLEAN]
    /\ details \in Breakdowns
    /\ other \in Breakdowns
    /\ built = None /\ otherBuilt = None
    /\ NoService /\ NoZipcode /\ NoBaseCost
    /\ NoDimensions /\ NoCalls /\ NoHandler /\ NoTelemetry

CallBuildResponseOther ==
    /\ pc = "done"
    /\ otherBuilt' = buildResponse(other, dIn.isExpress)
    /\ pc' = "both"
    /\ UNCHANGED <<dIn, details, built, other, serviceVars, zipcodeVars,
                   baseCostVars, dimensionsVars, callsVars, handlerVars,
                   telemetryVars>>

NextBuild == CallBuildResponse \/ CallBuildResponseOther

SpecBuild == InitBuild /\ [][NextBuild]_vars

\* ValidateDimensions called on its own.
InitDimensions ==
    /\ pc = "start"
    /\ dims \in DimensionInputs
    /\ dimErr = Nil
    /\ NoService /\ NoZipcode /\ NoBaseCost /\ NoDetails /\ NoPair
    /\ NoCalls /\ NoHandler /\ NoTelemetry

CallValidateDimensions ==
    /\ pc = "start"
    /\ dimErr' = ValidateDimensions(dims.length, dims.width, dims.height)
    /\ pc' = "done"
    /\ UNCHANGED <<dims, serviceVars, zipcodeVars, baseCostVars, detailsVars,
                   pairVars, callsVars, handlerVars,
                   telemetryVars>>

NextDimensions == CallValidateDimensions

SpecDimensions == InitDimensions /\ [][NextDimensions]_vars

\* Several CalculateShipping calls on one ShippingService, each advancing
\* statement by statement, interleaved in every possible way.

\* NewShippingService(): a struct without fields
NewShippingService == [field \in {} |-> None]

\* The locals of a call that has just received request r.
NewCall(r) ==
    [pc |-> "origin", req |-> r, volume |-> None, baseCost |-> None,
     details |-> None, response |-> None, err |-> Nil]

InitCalls ==
    /\ pc = "start"
    /\ svc = NewShippingService
    /\ logged = {}
    /\ \E rs \in [Calls -> CallRequests] :
          calls = [p \in Calls |-> NewCall(rs[p])]
    /\ NoService /\ NoZipcode /\ NoBaseCost /\ NoDetails /\ NoPair
    /\ NoDimensions /\ NoHandler /\ NoTelemetry

\* Call p returns nil and the wrapped error after one LogWarning.
Refuse(p, param, e) ==
    /\ calls' = [calls EXCEPT ![p].pc = "done",
                              ![p].response = ValidationFailure(param, e).resp,
                              ![p].err = ValidationFailure(param, e).err]
    /\ logged' = logged \cup {<<p, "warning", param>>}

\* Call p goes on to the statement at position next.
Proceed(p, next) ==
    /\ calls' = [calls EXCEPT ![p].pc = next]
    /\ UNCHANGED logged

\* Sharing the base cost among the calls: whichever call computed one first
\* by number provides it to all.
SharedBaseCost(p) ==
    LET have == {q \in Calls : calls[q].baseCost # None}
    IN  calls[CHOOSE q \in have : \A r \in have : q <= r].baseCost

\* The local variable baseCost of call p
LocalBaseCost(p) == calls[p].baseCost

\* Sharing the breakdown among the calls: whichever call computed one last
\* by number provides it to all.
SharedDetails(p) ==
    LET have == {q \in Calls : calls[q].details # None}
    IN  calls[CHOOSE q \in have : \A r \in have : q >= r].details

\* The local variable details of call p
LocalDetails(p) == calls[p].details

CheckOrigin(p) ==
    /\ calls[p].pc = "origin"
    /\ LET e == ValidateZipcode(calls[p].req.OriginZipcode, "origin_zipcode")
       IN  IF e # Nil THEN Refuse(p, "origin_zipcode", e)
           ELSE Proceed(p, "destination")
    /\ UNCHANGED <<pc, svc, serviceVars, zipcodeVars, baseCostVars, detailsVars,
                   pairVars, dimensionsVars, handlerVars,
                   telemetryVars>>

CheckDestination(p) ==
    /\ calls[p].pc = "destination"
    /\ LET e == ValidateZipcode(calls[p].req.DestinationZipcode,
                                "destination_zipcode")
       IN  IF e # Nil THEN Refuse(p, "destination_zipcode", e)
           ELSE Proceed(p, "weight")
    /\ UNCHANGED <<pc, svc, serviceVars, zipcodeVars, baseCostVars, detailsVars,
                   pairVars, dimensionsVars, handlerVars,
                   telemetryVars>>

CheckWeight(p) ==
    /\ calls[p].pc = "weight"
    /\ LET e == ValidateWeight(calls[p].req.Weight)
       IN  IF e # Nil THEN Refuse(p, "weight", e)
           ELSE Proceed(p, "dimensions")
    /\ UNCHANGED <<pc, svc, serviceVars, zipcodeVars, baseCostVars, detailsVars,
                   pairVars, dimensionsVars, handlerVars,
                   telemetryVars>>

CheckDimensions(p) ==
    /\ calls[p].pc = "dimensions"
    /\ LET r == calls[p].req
           volume == CalculateVolume(r.Length, r.Width, r.Height)
           e == ValidateDimensions(r.Length, r.Width, r.Height)
       IN  IF e # Nil
               THEN /\ calls' = [calls EXCEPT
                          ![p].pc = "done",
                          ![p].volume = volume,
                          ![p].response = ValidationFailure("dimensions", e).resp,
                          ![p].err = ValidationFailure("dimensions", e).err]
                    /\ logged' = logged \cup {<<p, "warning", "dimensions">>}
               ELSE /\ calls' = [calls EXCEPT ![p].pc = "baseCost",
                                              ![p].volume = volume]
                    /\ UNCHANGED logged
    /\ UNCHANGED <<pc, svc, serviceVars, zipcodeVars, baseCostVars, detailsVars,
                   pairVars, dimensionsVars, handlerVars,
                   telemetryVars>>

ComputeBaseCost(p) ==
    /\ calls[p].pc = "baseCost"
    /\ calls' = [calls EXCEPT
                    ![p].pc = "details",
                    ![p].baseCost = calculateBaseCost(calls[p].req.OriginZipcode,
                                                      calls[p].req.DestinationZipcode)]
    /\ UNCHANGED <<pc, svc, logged, serviceVars, zipcodeVars, baseCostVars,
                   detailsVars, pairVars, dimensionsVars, handlerVars,
                   telemetryVars>>

ComputeDetails(p) ==
    /\ calls[p].pc = "details"
    /\ calls' = [calls EXCEPT
                    ![p].pc = "response",
                    ![p].details = calculateShippingDetails(LocalBaseCost(p),
                                       calls[p].req.Weight, calls[p].volume,
                                       calls[p].req.IsExpress)]
    /\ logged' = logged \cup {<<p, "info", "Detalhes do cálculo">>}
    /\ UNCHANGED <<pc, svc, serviceVars, zipcodeVars, baseCostVars, detailsVars,
                   pairVars, dimensionsVars, handlerVars,
                   telemetryVars>>

BuildAndReturn(p) ==
    /\ calls[p].pc = "response"
    /\ calls' = [calls EXCEPT
                    ![p].pc = "done",
                    ![p].response = buildResponse(LocalDetails(p),
                                                  calls[p].req.IsExpress)]
    /\ logged' = logged \cup {<<p, "info", "Resultado do cálculo">>}
    /\ UNCHANGED <<pc, svc, serviceVars, zipcodeVars, baseCostVars, detailsVars,
                   pairVars, dimensionsVars, handlerVars,
                   telemetryVars>>

NextCalls ==
    \E p \in Calls :
        \/ CheckOrigin(p)
        \/ CheckDestination(p)
        \/ CheckWeight(p)
        \/ CheckDimensions(p)
        \/ ComputeBaseCost(p)
        \/ ComputeDetails(p)
        \/ BuildAndReturn(p)

SpecCalls == InitCalls /\ [][NextCalls]_vars

\* ShippingHandler.CalculateShipping serving one request after the other.
InitHandler ==
    /\ pc = "start"
    /\ http = IdleHandler
    /\ metrics = NoRecords
    /\ served = 0
    /\ NoService /\ NoZipcode /\ NoBaseCost /\ NoDetails /\ NoPair
    /\ NoDimensions /\ NoCalls /\ NoTelemetry

\* A request arrives: the handler starts its clock and counts the request.
HandlerReceive ==
    /\ http.pc = "idle"
    /\ served < MaxRequests
    /\ \E body \in Bodies :
          http' = [IdleHandler EXCEPT !.pc = "decode", !.body = body,
                                      !.atArrival = metrics]
    /\ metrics' = IncrementShipmentCalculate(metrics)
    /\ UNCHANGED served
    /\ UNCHANGED <<pc, serviceVars, zipcodeVars, baseCostVars, detailsVars,
                   pairVars, dimensionsVars, callsVars, telemetryVars>>

\* The handler decodes the body, and answers at once if that fails.
HandlerDecode ==
    /\ http.pc = "decode"
    /\ LET dec == JsonDecode(http.body)
       IN  IF dec.err # Nil
               THEN /\ metrics' = IncrementShipmentCalculateError(metrics)
                    /\ http' = writeJSON(
                          [http EXCEPT
                              !.pc = "idle",
                              !.log = Append(@, HandlerLogError(
                                  "Erro no serviço de cálculo: falha ao decodificar requisição"))],
                          400, [error |-> "invalid request body"])
                    /\ served' = served + 1
               ELSE /\ http' = [http EXCEPT !.pc = "calculate", !.req = dec.req]
                    /\ UNCHANGED <<metrics, served>>
    /\ UNCHANGED <<pc, serviceVars, zipcodeVars, baseCostVars, detailsVars,
                   pairVars, dimensionsVars, callsVars, telemetryVars>>

\* The exchange h once s.service.CalculateShipping has returned out: the
\* handler's request entry and the service's own entries are in the log.
ServiceCalled(h, out) ==
    [h EXCEPT
        !.pc = "idle",
        !.outcome = [resp |-> out.resp, err |-> out.err],
        !.serviceCalls = @ + 1,
        !.log = Append(@, LogEntry("handler", "info",
                              "Solicitação de cálculo de custos"))
                    \o ServiceLog(out)]

\* The service returned an error: it is logged and answered with status 400.
AnswerServiceError(h, out) ==
    writeJSON([ServiceCalled(h, out) EXCEPT
                  !.log = Append(@, HandlerLogError("Erro no serviço de cálculo"))],
              400, [error |-> out.err])

\* The service returned a response: it is answered with status 200.
AnswerResponse(h, out) == writeJSON(ServiceCalled(h, out), 200, out.resp)

\* The instruments m after a calculation that took elapsed ms and cost
\* shippingCost.
RecordSuccess(m, elapsed, shippingCost) ==
    RecordShipmentCalculateCostDistribution(
        RecordShipmentCalculateTime(m, elapsed), shippingCost)

\* What the handler does with the outcome out of the service.
ServiceReturned(out) ==
    IF out.err # Nil
        THEN /\ metrics' = IncrementShipmentCalculateError(metrics)
             /\ http' = AnswerServiceError(http, out)
        ELSE /\ \E elapsed \in 0..MaxElapsedMs :
                   metrics' = RecordSuccess(metrics, elapsed, out.resp.ShippingCost)
             /\ http' = AnswerResponse(http, out)

\* The handler logs the request, calls the service and answers.
HandlerCalculate ==
    /\ http.pc = "calculate"
    /\ ServiceReturned(ServiceCalculateShipping(http.req))
    /\ served' = served + 1
    /\ UNCHANGED <<pc, serviceVars, zipcodeVars, baseCostVars, detailsVars,
                   pairVars, dimensionsVars, callsVars, telemetryVars>>

NextHandler == HandlerReceive \/ HandlerDecode \/ HandlerCalculate

SpecHandler == InitHandler /\ [][NextHandler]_vars

----------------------------------------------------------------------------
(* package telemetry: getInstance and its sync.Once *)

\* Goroutines calling getInstance
MaxGetters == 3

Getters == 1..MaxGetters

\* Values of the environment variable APPLICATION_NAME ("" is unset)
AppNames == {"", "billing"}

\* The package at process start: var once sync.Once, var instance
\* *instruments (nil), no instruments created yet.  once.m is the goroutine
\* holding the mutex of once, 0 when it is free; env is APPLICATION_NAME.
NewProcess(name) ==
    [env |-> name, once |-> [done |-> FALSE, m |-> 0], instance |-> None,
     created |-> 0, exited |-> FALSE]

\* A goroutine that has not called getInstance yet: its position, the locals
\* appName and the instruments it made, whether once.Do took its slow path,
\* and what getInstance returned to it.
NewGetter ==
    [pc |-> "idle", appName |-> "", made |-> None, slow |-> FALSE,
     result |-> None]

\* once.Do running its function whether or not it ran before
OnceNeverDone(o) == TRUE

\* once.Do(f) runs f only while once is not done (checked before and after
\* taking the mutex).
OncePending(o) == ~o.done

\* appName := os.Getenv("APPLICATION_NAME"), "shipping-calculator" if empty
AppNameOrDefault(env) == IF env = "" THEN "shipping-calculator" ELSE env

InitTelemetry ==
    /\ pc = "start"
    /\ \E name \in AppNames : telemetry = NewProcess(name)
    /\ getters = [g \in Getters |-> NewGetter]
    /\ NoService /\ NoZipcode /\ NoBaseCost /\ NoDetails /\ NoPair
    /\ NoDimensions /\ NoCalls /\ NoHandler

\* Goroutine g calls getInstance: once.Do loads done and returns at once when
\* the function already ran.
GetInstanceCall(g) ==
    /\ ~telemetry.exited
    /\ getters[g].pc = "idle"
    /\ getters' = [getters EXCEPT
                      ![g].pc = IF OncePending(telemetry.once) THEN "lock"
                                ELSE "return",
                      ![g].slow = OncePending(telemetry.once)]
    /\ UNCHANGED telemetry
    /\ UNCHANGED <<pc, serviceVars, zipcodeVars, baseCostVars, detailsVars,
                   pairVars, dimensionsVars, callsVars, handlerVars>>

\* The slow path of once.Do takes the mutex of once.
OnceLock(g) ==
    /\ ~telemetry.exited
    /\ getters[g].pc = "lock"
    /\ telemetry.once.m = 0
    /\ telemetry' = [telemetry EXCEPT !.once.m = g]
    /\ getters' = [getters EXCEPT ![g].pc = "locked"]
    /\ UNCHANGED <<pc, serviceVars, zipcodeVars, baseCostVars, detailsVars,
                   pairVars, dimensionsVars, callsVars, handlerVars>>

\* Holding the mutex, once.Do loads done again: it runs the function, or
\* unlocks and returns.
OnceRecheck(g) ==
    /\ ~telemetry.exited
    /\ getters[g].pc = "locked"
    /\ IF OncePending(telemetry.once)
           THEN /\ getters' = [getters EXCEPT ![g].pc = "getenv"]
                /\ UNCHANGED telemetry
           ELSE /\ getters' = [getters EXCEPT ![g].pc = "return"]
                /\ telemetry' = [telemetry EXCEPT !.once.m = 0]
    /\ UNCHANGED <<pc, serviceVars, zipcodeVars, baseCostVars, detailsVars,
                   pairVars, dimensionsVars, callsVars, handlerVars>>

\* The function reads APPLICATION_NAME.
ReadAppName(g) ==
    /\ ~telemetry.exited
    /\ getters[g].pc = "getenv"
    /\ getters' = [getters EXCEPT
                      ![g].pc = "create",
                      ![g].appName = AppNameOrDefault(telemetry.env)]
    /\ UNCHANGED telemetry
    /\ UNCHANGED <<pc, serviceVars, zipcodeVars, baseCostVars, detailsVars,
                   pairVars, dimensionsVars, callsVars, handlerVars>>

\* The function creates the instruments on otel.Meter(appName); log.Fatalf
\* ends the process when a creation fails.
CreateInstruments(g) ==
    /\ ~telemetry.exited
    /\ getters[g].pc = "create"
    /\ \E ok \in BOOLEAN :
          IF ok
              THEN /\ telemetry' = [telemetry EXCEPT !.created = @ + 1]
                   /\ getters' = [getters EXCEPT
                                     ![g].pc = "assign",
                                     ![g].made = [id |-> telemetry.created + 1,
                                                  meter |-> getters[g].appName]]
              ELSE /\ telemetry' = [telemetry EXCEPT !.exited = TRUE]
                   /\ UNCHANGED getters
    /\ UNCHANGED <<pc, serviceVars, zipcodeVars, baseCostVars, detailsVars,
                   pairVars, dimensionsVars, callsVars, handlerVars>>

\* instance = &instruments{...}
AssignInstance(g) ==
    /\ ~telemetry.exited
    /\ getters[g].pc = "assign"
    /\ telemetry' = [telemetry EXCEPT !.instance = getters[g].made]
    /\ getters' = [getters EXCEPT ![g].pc = "unlock"]
    /\ UNCHANGED <<pc, serviceVars, zipcodeVars, baseCostVars, detailsVars,
                   pairVars, dimensionsVars, callsVars, handlerVars>>

\* The function has returned: once.Do stores done and unlocks the mutex.
OnceDone(g) ==
    /\ ~telemetry.exited
    /\ getters[g].pc = "unlock"
    /\ telemetry' = [telemetry EXCEPT !.once = [done |-> TRUE, m |-> 0]]
    /\ getters' = [getters EXCEPT ![g].pc = "return"]
    /\ UNCHANGED <<pc, serviceVars, zipcodeVars, baseCostVars, detailsVars,
                   pairVars, dimensionsVars, callsVars, handlerVars>>

\* return instance
GetInstanceReturn(g) ==
    /\ ~telemetry.exited
    /\ getters[g].pc = "return"
    /\ getters' = [getters EXCEPT ![g].pc = "returned",
                                  ![g].result = telemetry.instance]
    /\ UNCHANGED telemetry
    /\ UNCHANGED <<pc, serviceVars, zipcodeVars, baseCostVars, detailsVars,
                   pairVars, dimensionsVars, callsVars, handlerVars>>

\* APPLICATION_NAME is changed while the process runs.
Setenv ==
    /\ ~telemetry.exited
    /\ \E name \in AppNames \ {telemetry.env} :
          telemetry' = [telemetry EXCEPT !.env = name]
    /\ UNCHANGED getters
    /\ UNCHANGED <<pc, serviceVars, zipcodeVars, baseCostVars, detailsVars,
                   pairVars, dimensionsVars, callsVars, handlerVars>>

NextTelemetry ==
    \/ Setenv
    \/ \E g \in Getters :
          \/ GetInstanceCall(g)
          \/ OnceLock(g)
          \/ OnceRecheck(g)
          \/ ReadAppName(g)
          \/ CreateInstruments(g)
          \/ AssignInstance(g)
          \/ OnceDone(g)
          \/ GetInstanceReturn(g)

SpecTelemetry == InitTelemetry /\ [][NextTelemetry]_vars

-----------------------------------------------------------------------------
(* the fail-fast contract of CalculateShipping *)

\* The checks of request r that fail, as <<param, message>> pairs in the
\* order origin zipcode, destination zipcode, weight, dimensions.
FailedChecks(r) ==
    LET all == << <<"origin_zipcode",
                    ValidateZipcode(r.OriginZipcode, "origin_zipcode")>>,
                  <<"destination_zipcode",
                    ValidateZipcode(r.DestinationZipcode, "destination_zipcode")>>,
                  <<"weight", ValidateWeight(r.Weight)>>,
                  <<"dimensions", ValidateDimensions(r.Length, r.Width, r.Height)>> >>
    IN  SelectSeq(all, LAMBDA c : c[2] # Nil)

\* C1: CalculateShipping checks origin zipcode, destination zipcode, weight
\* and dimensions in that order and returns the error of the first check that
\* fails; when several fields are invalid the error (and the one warning
\* logged) names only the earliest of them.
C1_FirstFailureWins ==
    (pc = "done" /\ FailedChecks(req) # <<>>) =>
        LET first == Head(FailedChecks(req))
        IN  /\ err = "invalid " \o first[1] \o ": " \o first[2]
            /\ warnings = <<first[1]>>

\* A request with a valid origin whose destination, weight and dimensions are
\* all invalid has been answered with the destination's error.
C1_Witness ==
    /\ pc = "done"
    /\ Len(FailedChecks(req)) = 3
    /\ Head(FailedChecks(req))[1] = "destination_zipcode"
    /\ err = "invalid destination_zipcode: destination_zipcode is required"

\* The four error prefixes
ErrorPrefixes ==
    {"invalid origin_zipcode: ", "invalid destination_zipcode: ",
     "invalid weight: ", "invalid dimensions: "}

\* The messages the validators produce for request r
ValidatorMessages(r) ==
    {ValidateZipcode(r.OriginZipcode, "origin_zipcode"),
     ValidateZipcode(r.DestinationZipcode, "destination_zipcode"),
     ValidateWeight(r.Weight),
     ValidateDimensions(r.Length, r.Width, r.Height)} \ {Nil}

\* C2: whenever a validation check fails, CalculateShipping returns a nil
\* response with a non-nil error whose message is a validator's message
\* behind one of the four "invalid <field>: " prefixes; a response is
\* returned only when no check fails, and then without an error.
C2_NilResponseAndPrefixedError ==
    pc = "done" =>
        /\ (ValidatorMessages(req) # {}) =>
              /\ resp = None
              /\ err # Nil
              /\ \E prefix \in ErrorPrefixes, m \in ValidatorMessages(req) :
                    err = prefix \o m
        /\ (ValidatorMessages(req) = {}) => (resp # None /\ err = Nil)
        /\ (resp = None) # (err = Nil)

\* A request with a non-positive weight has been refused with the prefixed
\* weight message and no response.
C2_Witness ==
    /\ pc = "done"
    /\ resp = None
    /\ err = "invalid weight: weight must be greater than 0"

----------------------------------------------------------------------------
(* ValidateZipcode *)

\* z without its '-' and ' ' runes is 4 to 8 ASCII decimal digits.
IsAsciiZipcode(z) ==
    LET kept == SelectSeq(z, LAMBDA c : c \notin {"-", " "})
    IN  /\ Len(kept) >= 4
        /\ Len(kept) <= 8
        /\ \A i \in 1..Len(kept) : kept[i] \in AsciiDigits

\* C3: ValidateZipcode returns no error if and only if the zipcode, with
\* every '-' and ' ' removed, consists of 4 to 8 characters that are all
\* ASCII decimal digits.
C3_AcceptsExactlyAsciiDigits ==
    pc = "done" => ((zipErr = Nil) <=> IsAsciiZipcode(zipcode))

\* The two messages of ValidateZipcode
RequiredMessage(field) == field \o " is required"
FormatMessage(field) == field \o " must be a valid zipcode format (4-8 digits)"

\* C4: ValidateZipcode produces exactly two error messages: "<fieldName> is
\* required" if and only if the raw input is the empty string, and
\* "<fieldName> must be a valid zipcode format (4-8 digits)" for every other
\* rejected input, also one made of separators only or holding a newline.
C4_TwoMessages ==
    pc = "done" =>
        /\ zipErr \in {Nil, RequiredMessage(fieldName), FormatMessage(fieldName)}
        /\ (zipErr = RequiredMessage(fieldName)) <=> (zipcode = <<>>)
        /\ (zipcode # <<>> /\ Normalize(zipcode) = <<>>) =>
              zipErr = FormatMessage(fieldName)
        /\ (\E i \in 1..Len(zipcode) : zipcode[i] = "\n") =>
              zipErr = FormatMessage(fieldName)

\* A zipcode of three spaces has been refused with the format message.
C4_Witness ==
    /\ pc = "done"
    /\ zipcode = <<" ", " ", " ">>
    /\ zipErr = FormatMessage(fieldName)

\* z normalizes to exactly 8 digits.
IsEightDigits(z) ==
    /\ Len(Normalize(z)) = 8
    /\ \A i \in 1..Len(Normalize(z)) : IsDigit(Normalize(z)[i])

\* z normalizes to a string of 4 to 8 bytes, all of them digits.
IsDigitString4To8(z) ==
    /\ ByteLen(Normalize(z)) >= 4
    /\ ByteLen(Normalize(z)) <= 8
    /\ \A i \in 1..Len(Normalize(z)) : IsDigit(Normalize(z)[i])

\* The request was refused because of one of its zipcodes.
ZipcodeRefused ==
    /\ resp = None
    /\ \E field \in FieldNames :
          \E m \in {RequiredMessage(field), FormatMessage(field)} :
              err = "invalid " \o field \o ": " \o m

----------------------------------------------------------------------------
(* calculateBaseCost *)

\* What strconv.ParseFloat makes of the two normalized arguments
ParsedOrigin == ParseFloat(Normalize(origin))
ParsedDestination == ParseFloat(Normalize(destination))

\* |x - y|
Distance(x, y) ==
    IF FLt(FSub(x, y), FInt(0)) THEN FNeg(FSub(x, y)) ELSE FSub(x, y)

Letters == {"a", "b", "c", "i", "n", "f"}

\* s is empty or made of letters only.
IsEmptyOrAlphabetic(s) == \A i \in 1..Len(s) : s[i] \in Letters

\* C7: calculateBaseCost returns the flat base cost 1000 whenever the
\* normalized origin or the normalized destination cannot be parsed as a
\* number, the empty string and purely alphabetic input included, whatever
\* the other code is.
C7_UnparseableGivesFlatCost ==
    pc = "done" =>
        /\ (~ParsedOrigin.ok \/ ~ParsedDestination.ok) => baseCost = FInt(1000)
        /\ (IsEmptyOrAlphabetic(Normalize(origin))
               \/ IsEmptyOrAlphabetic(Normalize(destination))) =>
              baseCost = FInt(1000)

----------------------------------------------------------------------------
(* calculateShippingDetails and buildResponse *)

\* baseCost + weightSurcharge + volumeSurcharge of a breakdown
Subtotal(d) == FAdd(FAdd(d.BaseCost, d.WeightSurcharge), d.VolumeSurcharge)

\* C8: calculateShippingDetails sets weightSurcharge = baseCost * 0.10 *
\* (weight / 0.5) and volumeSurcharge = baseCost * 0.05 * (volume / 1000)
\* with fractional units not rounded (for baseCost 1000: weight 0.25 gives 50,
\* weight 2.5 gives 500, volume 500 gives 25, volume 5000 gives 250) and
\* returns baseCost unchanged.
C8_Surcharges ==
    pc \in {"details", "done"} =>
        /\ details.BaseCost = dIn.baseCost
        /\ details.WeightSurcharge = FDiv(FMul(dIn.baseCost, dIn.weight), FInt(5))
        /\ details.VolumeSurcharge = FDiv(FMul(dIn.baseCost, dIn.volume), FInt(20000))
        /\ dIn.baseCost = FInt(1000) =>
              /\ dIn.weight = Fin(1, 4) => details.WeightSurcharge = FInt(50)
              /\ dIn.weight = Fin(5, 2) => details.WeightSurcharge = FInt(500)
              /\ dIn.volume = FInt(500) => details.VolumeSurcharge = FInt(25)
              /\ dIn.volume = FInt(5000) => details.VolumeSurcharge = FInt(250)

\* calculateShippingDetails(1000, 0.25, 500, _) has returned the surcharges
\* 50 and 25 of a fractional weight unit and a fractional volume unit.
C8_Witness ==
    /\ pc = "details"
    /\ dIn.baseCost = FInt(1000) /\ dIn.weight = Fin(1, 4) /\ dIn.volume = FInt(500)
    /\ details.WeightSurcharge = FInt(50)
    /\ details.VolumeSurcharge = FInt(25)

\* C9: in the breakdown, with subtotal = baseCost + weightSurcharge +
\* volumeSurcharge: expressSurcharge is subtotal * 0.50 when expedited and 0
\* when not, totalCost is subtotal + expressSurcharge, and estimatedDays is 1
\* when expedited and 2 when not.
C9_ExpressSurchargeAndDays ==
    pc \in {"details", "done"} =>
        /\ details.ExpressSurcharge =
              IF dIn.isExpress THEN FDiv(Subtotal(details), FInt(2)) ELSE FInt(0)
        /\ details.TotalCost = FAdd(Subtotal(details), details.ExpressSurcharge)
        /\ details.EstimatedDays = IF dIn.isExpress THEN 1 ELSE 2

\* An expedited breakdown for baseCost 1000, weight 1.0 and volume 1000 has
\* been computed: subtotal 1250, express surcharge 625, total 1875, one day.
C9_Witness ==
    /\ pc = "details"
    /\ dIn = [baseCost |-> FInt(1000), weight |-> FInt(1), volume |-> FInt(1000),
              isExpress |-> TRUE]
    /\ Subtotal(details) = FInt(1250)
    /\ details.ExpressSurcharge = FInt(625)
    /\ details.TotalCost = FInt(1875)
    /\ details.EstimatedDays = 1

\* C10: for every breakdown of calculateShippingDetails handed to
\* buildResponse with the same expedited flag, breakdown.totalCost equals
\* response.shippingCost.
C10_TotalCostEqualsShippingCost ==
    pc = "done" => FEq(details.TotalCost, built.ShippingCost)

\* The expedited breakdown for baseCost 1000, weight 1.0 and volume 1000 and
\* the response built from it both say 1875.
C10_Witness ==
    /\ pc = "done"
    /\ dIn = [baseCost |-> FInt(1000), weight |-> FInt(1), volume |-> FInt(1000),
              isExpress |-> TRUE]
    /\ details.TotalCost = FInt(1875)
    /\ built.ShippingCost = FInt(1875)

----------------------------------------------------------------------------
(* the response assembled by buildResponse *)

\* C11: every successful response has available_services exactly
\* <<"standard", "express">> and shipping_options with exactly two entries,
\* the first for service "standard" and the second for service "express",
\* whatever is_express the request carried.
C11_TwoOptionsInFixedOrder ==
    (pc = "done" /\ err = Nil) =>
        /\ resp.AvailableServices = <<"standard", "express">>
        /\ Len(resp.ShippingOptions) = 2
        /\ resp.ShippingOptions[1].Service = "standard"
        /\ resp.ShippingOptions[2].Service = "express"

\* An expedited request has succeeded and its response still lists the
\* standard option first and the express option second.
C11_Witness ==
    /\ pc = "done" /\ err = Nil
    /\ req.IsExpress
    /\ Len(resp.ShippingOptions) = 2
    /\ resp.ShippingOptions[1].Service = "standard"
    /\ resp.ShippingOptions[2].Service = "express"

\* C12: in the response of buildResponse the standard option costs
\* baseCost + weightSurcharge + volumeSurcharge, the express option costs
\* that standard cost times 1.5, and the selected shippingCost and
\* estimatedDeliveryTime are the cost and time of the express option when
\* expedited and of the standard option when not.
C12_OptionCostsAndSelection ==
    pc = "done" =>
        LET standard == built.ShippingOptions[1]
            express == built.ShippingOptions[2]
        IN  /\ standard.Cost = FAdd(FAdd(details.BaseCost, details.WeightSurcharge),
                                    details.VolumeSurcharge)
            /\ express.Cost = FMul(standard.Cost, Fin(3, 2))
            /\ built.ShippingCost =
                  IF dIn.isExpress THEN express.Cost ELSE standard.Cost
            /\ built.EstimatedDeliveryTime =
                  IF dIn.isExpress THEN express.Time ELSE standard.Time

\* The expedited response for baseCost 1000, weight 1.0 and volume 1000 has
\* been built: standard option 1250, express option 1875, selected 1875.
C12_Witness ==
    /\ pc = "done"
    /\ dIn = [baseCost |-> FInt(1000), weight |-> FInt(1), volume |-> FInt(1000),
              isExpress |-> TRUE]
    /\ built.ShippingOptions[1].Cost = FInt(1250)
    /\ built.ShippingOptions[2].Cost = FInt(1875)
    /\ built.ShippingCost = built.ShippingOptions[2].Cost
    /\ built.EstimatedDeliveryTime = built.ShippingOptions[2].Time

\* C13: the response of buildResponse does not depend on the breakdown's
\* stored expressSurcharge, totalCost or estimatedDays: two breakdowns that
\* agree on baseCost, weightSurcharge and volumeSurcharge give identical
\* responses for the same expedited flag.
C13_ResponseIgnoresStoredTotals ==
    ( /\ pc = "both"
      /\ details.BaseCost = other.BaseCost
      /\ details.WeightSurcharge = other.WeightSurcharge
      /\ details.VolumeSurcharge = other.VolumeSurcharge ) => built = otherBuilt

\* Two breakdowns with the same three cost components but a different stored
\* express surcharge, total and days have both been turned into a response,
\* and the two responses are the same.
C13_Witness ==
    /\ pc = "both"
    /\ details.BaseCost = other.BaseCost
    /\ details.WeightSurcharge = other.WeightSurcharge
    /\ details.VolumeSurcharge = other.VolumeSurcharge
    /\ details.ExpressSurcharge # other.ExpressSurcharge
    /\ details.TotalCost # other.TotalCost
    /\ details.EstimatedDays # other.EstimatedDays
    /\ built = otherBuilt

\* C14: delivery-time strings are fixed by service: the standard option's time
\* is "2 dias", the express option's time is "1 dia", and the selected
\* estimated_delivery_time is "1 dia" exactly when the request is expedited
\* and "2 dias" otherwise; the condition of the plural branch for express,
\* expressDeliveryDays > 1, is false.
C14_DeliveryTimeStrings ==
    (pc = "done" /\ err = Nil) =>
        /\ resp.ShippingOptions[1].Time = "2 dias"
        /\ resp.ShippingOptions[2].Time = "1 dia"
        /\ resp.EstimatedDeliveryTime = "1 dia" <=> req.IsExpress
        /\ resp.EstimatedDeliveryTime = "2 dias" <=> ~req.IsExpress
        /\ ~(expressDeliveryDays > 1)

\* An expedited request has been answered with "1 dia", next to a standard
\* option of "2 dias".
C14_Witness ==
    /\ pc = "done" /\ err = Nil
    /\ req.IsExpress
    /\ resp.EstimatedDeliveryTime = "1 dia"
    /\ resp.ShippingOptions[1].Time = "2 dias"

----------------------------------------------------------------------------
(* the price of a whole request *)

----------------------------------------------------------------------------
(* ValidateDimensions and ValidateWeight *)

\* The message ValidateDimensions gives for a volume above the cap.
VolumeMessage(volume) ==
    "package volume (" \o FormatF2(volume)
        \o " cm³) exceeds maximum allowed volume (15000.00 cm³)"

\* C16: ValidateDimensions checks length, width, height and volume in that
\* order and reports only the first check that fails: the length message if
\* length <= 0, else the width message if width <= 0, else the height message
\* if height <= 0, else the volume message with the volume written to two
\* decimals (30 x 30 x 20 gives "package volume (18000.00 cm³) exceeds maximum
\* allowed volume (15000.00 cm³)"); the error is never a combination.
C16_FirstFailingDimension ==
    pc = "done" =>
        LET length == dims.length
            width == dims.width
            height == dims.height
            volume == FMul(FMul(length, width), height)
        IN  /\ FLe(length, FInt(0)) =>
                  dimErr = "dimensions.length must be positive"
            /\ (FGt(length, FInt(0)) /\ FLe(width, FInt(0))) =>
                  dimErr = "dimensions.width must be positive"
            /\ (FGt(length, FInt(0)) /\ FGt(width, FInt(0))
                   /\ FLe(height, FInt(0))) =>
                  dimErr = "dimensions.height must be positive"
            /\ (FGt(length, FInt(0)) /\ FGt(width, FInt(0))
                   /\ FGt(height, FInt(0)) /\ dimErr # Nil) =>
                  dimErr = VolumeMessage(volume)
            /\ (length = FInt(30) /\ width = FInt(30) /\ height = FInt(20)) =>
                  dimErr = "package volume (18000.00 cm³) exceeds maximum allowed volume (15000.00 cm³)"

\* ValidateDimensions(-10, -5, -2), where all three checks would fail, has
\* reported the length alone.
C16_Witness ==
    /\ pc = "done"
    /\ dims = [length |-> FInt(-10), width |-> FInt(-5), height |-> FInt(-2)]
    /\ dimErr = "dimensions.length must be positive"

\* C17: ValidateDimensions returns no error if and only if length > 0,
\* width > 0, height > 0 and length * width * height <= 15000; the cap is
\* inclusive: 25 x 20 x 30 = 15000 is accepted and every volume above it
\* is rejected.
C17_AcceptedIffPositiveWithinCap ==
    pc = "done" =>
        LET volume == FMul(FMul(dims.length, dims.width), dims.height)
        IN  /\ dimErr = Nil <=>
                  /\ FGt(dims.length, FInt(0))
                  /\ FGt(dims.width, FInt(0))
                  /\ FGt(dims.height, FInt(0))
                  /\ FLe(volume, FInt(15000))
            /\ FGt(volume, FInt(15000)) => dimErr # Nil
            /\ dims = [length |-> FInt(25), width |-> FInt(20),
                       height |-> FInt(30)] => dimErr = Nil

\* ValidateDimensions(25, 20, 30), a volume of exactly 15000, has returned
\* no error.
C17_Witness ==
    /\ pc = "done"
    /\ dims = [length |-> FInt(25), width |-> FInt(20), height |-> FInt(30)]
    /\ FMul(FMul(dims.length, dims.width), dims.height) = FInt(15000)
    /\ dimErr = Nil

\* C18: ValidateWeight fails, with the message "weight must be greater than
\* 0", if and only if weight <= 0, zero included; when it is the first check
\* to fail, CalculateShipping returns "invalid weight: weight must be greater
\* than 0" and a nil response, and it returns that error in no other case.
C18_WeightRejectedIffNotPositive ==
    pc = "done" =>
        LET zipcodesPass ==
                /\ ValidateZipcode(req.OriginZipcode, "origin_zipcode") = Nil
                /\ ValidateZipcode(req.DestinationZipcode,
                                   "destination_zipcode") = Nil
            surfaced == "invalid weight: weight must be greater than 0"
        IN  /\ ValidateWeight(req.Weight) = "weight must be greater than 0"
                  <=> FLe(req.Weight, FInt(0))
            /\ ValidateWeight(req.Weight) = Nil <=> FGt(req.Weight, FInt(0))
            /\ (zipcodesPass /\ FLe(req.Weight, FInt(0))) =>
                  (err = surfaced /\ resp = None)
            /\ err = surfaced => (zipcodesPass /\ FLe(req.Weight, FInt(0)))

\* A request with valid zipcodes and a weight of exactly zero has been
\* refused with the weight error and no response.
C18_Witness ==
    /\ pc = "done"
    /\ req.Weight = FInt(0)
    /\ err = "invalid weight: weight must be greater than 0"
    /\ resp = None

----------------------------------------------------------------------------
(* several calls on one service *)

\* What call p has returned.
Outcome(p) == [resp |-> calls[p].response, err |-> calls[p].err]

\* C19: the engine is deterministic: calls of CalculateShipping with
\* identical requests, in whatever order they run and whatever other calls
\* run before, between or during them, return identical outcomes: the same
\* error, or responses equal in every field.
C19_SameRequestSameOutcome ==
    \A p, q \in Calls :
        ( /\ calls[p].pc = "done"
          /\ calls[q].pc = "done"
          /\ calls[p].req = calls[q].req ) => Outcome(p) = Outcome(q)

\* The first and the last call carried the same valid request, the call
\* between them a different valid one with a different price; all have
\* returned, the first and the last with the same response.
C19_Witness ==
    /\ \A p \in Calls : calls[p].pc = "done" /\ calls[p].err = Nil
    /\ calls[1].req = calls[MaxCalls].req
    /\ calls[2].req # calls[1].req
    /\ calls[2].response.ShippingCost # calls[1].response.ShippingCost
    /\ Outcome(1) = Outcome(MaxCalls)

\* C20: concurrent calls of CalculateShipping on the same ShippingService do
\* not interfere: under every interleaving of their statements each call
\* returns exactly what it returns when run alone, and the service value,
\* which has no fields, is never written.
C20_CallsDoNotInterfere ==
    /\ svc = NewShippingService
    /\ DOMAIN svc = {}
    /\ \A p \in Calls :
          calls[p].pc = "done" =>
              LET alone == ServiceCalculateShipping(calls[p].req)
              IN  Outcome(p) = [resp |-> alone.resp, err |-> alone.err]

\* Call 1 has returned its response while call 2, carrying another valid
\* request, is between computing its base cost and its breakdown.
C20_Witness ==
    /\ calls[1].pc = "done" /\ calls[1].err = Nil
    /\ calls[2].pc = "details"
    /\ calls[2].req # calls[1].req
    /\ calls[2].baseCost # calls[1].baseCost
    /\ Outcome(1).resp = ServiceCalculateShipping(calls[1].req).resp

----------------------------------------------------------------------------
(* the HTTP handler *)

\* The handler has finished the request held in http.
Completed == http.pc = "idle" /\ served > 0

\* The response as the client is to read it: the fields under their json tags.
ResponseDocument(r) ==
    [shipping_cost |-> r.ShippingCost,
     estimated_delivery_time |-> r.EstimatedDeliveryTime,
     available_services |-> r.AvailableServices,
     shipping_options |->
         [i \in DOMAIN r.ShippingOptions |->
             [service |-> r.ShippingOptions[i].Service,
              cost |-> r.ShippingOptions[i].Cost,
              time |-> r.ShippingOptions[i].Time]]]

\* C21: the handler answers every error of the shipping service with status
\* 400 and the body {"error": <the service's message>}, and every successful
\* calculation with status 200 and the service's response, unchanged, as the
\* body; it writes exactly one status per request.
C21_ServiceOutcomeToStatus ==
    Completed =>
        /\ Len(http.statuses) = 1
        /\ http.serviceCalls = 1 =>
              IF http.outcome.err # Nil
                  THEN /\ http.statuses = <<400>>
                       /\ http.sent = [error |-> http.outcome.err]
                  ELSE /\ http.statuses = <<200>>
                       /\ http.sent = ResponseDocument(http.outcome.resp)

\* C22: when the request body cannot be decoded as JSON (malformed, empty or
\* absent, or of the wrong type), the handler answers with status 400 and the
\* body {"error": "invalid request body"}, and the shipping service is not
\* invoked for that request.
C22_UndecodableBodyRejected ==
    (Completed /\ http.body.kind # "object") =>
        /\ http.statuses = <<400>>
        /\ http.sent = [error |-> "invalid request body"]
        /\ http.serviceCalls = 0
        /\ http.outcome = None

\* A request without a body has been answered with 400 "invalid request
\* body" and the service was not called.
C22_Witness ==
    /\ Completed
    /\ http.body.kind = "absent"
    /\ http.statuses = <<400>>
    /\ http.sent = [error |-> "invalid request body"]
    /\ http.serviceCalls = 0

\* The request held in http failed: its body did not decode or the service
\* returned an error.
RequestFailed == http.serviceCalls = 0 \/ http.outcome.err # Nil

\* C23: each request adds one to the request counter, before its body is
\* decoded; a request that fails, at decoding or in the service, adds one to
\* the error counter and records in neither histogram; a successful request
\* records once in the time histogram and once in the cost histogram and
\* leaves the error counter alone.  Hence between requests the request count
\* is the error count plus the number of time records, and there are as many
\* time records as cost records.
C23_MetricAccounting ==
    /\ metrics.shipmentCalculate = served + (IF http.pc = "idle" THEN 0 ELSE 1)
    /\ http.pc # "idle" =>
          /\ metrics.shipmentCalculate = http.atArrival.shipmentCalculate + 1
          /\ metrics.shipmentCalculateError = http.atArrival.shipmentCalculateError
          /\ metrics.shipmentCalculateTime = http.atArrival.shipmentCalculateTime
    /\ Completed =>
          /\ metrics.shipmentCalculate = http.atArrival.shipmentCalculate + 1
          /\ metrics.shipmentCalculateError =
                http.atArrival.shipmentCalculateError
                    + (IF RequestFailed THEN 1 ELSE 0)
          /\ Len(metrics.shipmentCalculateTime) =
                Len(http.atArrival.shipmentCalculateTime)
                    + (IF RequestFailed THEN 0 ELSE 1)
          /\ Len(metrics.shipmentCalculateCostDistribution) =
                Len(http.atArrival.shipmentCalculateCostDistribution)
                    + (IF RequestFailed THEN 0 ELSE 1)
    /\ http.pc = "idle" =>
          /\ metrics.shipmentCalculate =
                metrics.shipmentCalculateError + Len(metrics.shipmentCalculateTime)
          /\ Len(metrics.shipmentCalculateTime) =
                Len(metrics.shipmentCalculateCostDistribution)

\* Three requests have been served, at least one refused and at least one
\* priced: the counters read 3 = errors + time records.
C23_Witness ==
    /\ http.pc = "idle" /\ served = MaxRequests
    /\ metrics.shipmentCalculate = MaxRequests
    /\ metrics.shipmentCalculateError >= 1
    /\ Len(metrics.shipmentCalculateTime) >= 1
    /\ metrics.shipmentCalculate =
          metrics.shipmentCalculateError + Len(metrics.shipmentCalculateTime)

\* The entries of the finished request's log written by `by` at `level`.
Logged(by, level) ==
    SelectSeq(http.log, LAMBDA e : e.by = by /\ e.level = level)

\* The request held in http was refused by a validation of the service.
ValidationFailed ==
    Completed /\ http.serviceCalls = 1 /\ http.outcome.err # Nil

\* C24 as stated: for every validation failure the HTTP handler that invokes
\* the service logs the failure at warning level.
C24_HandlerLogsWarning ==
    ValidationFailed => Len(Logged("handler", "warn")) >= 1

\* C24 amended: for every validation failure the service logs one warning
\* ("Solicitação com parâmetros inválidos") before it returns, and the HTTP
\* handler logs the returned error once at error level ("Erro no serviço de
\* cálculo") and nothing at warning level.
C24_ServiceWarnsHandlerLogsError ==
    ValidationFailed =>
        /\ Logged("service", "warn") =
              << LogEntry("service", "warn", "Solicitação com parâmetros inválidos") >>
        /\ Logged("handler", "error") =
              << LogEntry("handler", "error", "Erro no serviço de cálculo") >>
        /\ Logged("handler", "warn") = <<>>
        /\ Logged("service", "error") = <<>>

\* A request with weight 0 was refused: the log holds the handler's request
\* entry, the service's warning and the handler's error entry, in that order.
C24_Witness ==
    /\ ValidationFailed
    /\ http.outcome.err = "invalid weight: weight must be greater than 0"
    /\ http.log =
          << LogEntry("handler", "info", "Solicitação de cálculo de custos"),
             LogEntry("service", "warn", "Solicitação com parâmetros inválidos"),
             LogEntry("handler", "error", "Erro no serviço de cálculo") >>

\* The goroutines to which getInstance has returned.
Returned == {g \in Getters : getters[g].pc = "returned"}

\* C25: under every interleaving of concurrent calls of getInstance the
\* instruments are created at most once in the process, and exactly once as
\* soon as a call is about to return; a call returns only after the
\* initialization has completed (instance assigned, once done); and every
\* call returns the same non-nil instance, whatever APPLICATION_NAME is
\* changed to meanwhile.
C25_InitializedOnce ==
    /\ telemetry.created <= 1
    /\ \A g \in Getters :
          getters[g].pc \in {"return", "returned"} =>
              /\ telemetry.created = 1
              /\ telemetry.once.done
              /\ telemetry.instance # None
              /\ telemetry.instance.id = 1
    /\ \A g \in Returned :
          /\ getters[g].result # None
          /\ getters[g].result = telemetry.instance
    /\ \A g, h \in Returned : getters[g].result = getters[h].result

\* All goroutines have their instance; at least two of them raced for the
\* first call (both found once not done), and APPLICATION_NAME no longer is
\* what the instruments were created under.
C25_Witness ==
    /\ Returned = Getters
    /\ Cardinality({g \in Getters : getters[g].slow}) >= 2
    /\ \E g \in Getters : ~getters[g].slow
    /\ telemetry.created = 1
    /\ telemetry.instance.meter # AppNameOrDefault(telemetry.env)
    /\ \A g \in Getters : getters[g].result = telemetry.instance

\* length * width * height of request r, multiplied out.
Product(r) == FMul(FMul(r.Length, r.Width), r.Height)

\* C27: the volume CalculateShipping holds is the plain product of the three
\* dimensions, for zero and negative dimensions too (-10 x -5 x -2 = -100);
\* it is computed once the weight has passed and before the dimensions are
\* judged, so a call refused for its dimensions holds it as well; and the
\* volume surcharge is taken on that same value, which the cap check has
\* found within the maximum.
C27_VolumeIsPlainProduct ==
    \A p \in Calls :
        LET c == calls[p]
            r == c.req
        IN  /\ c.pc \in {"origin", "destination", "weight", "dimensions"} =>
                  c.volume = None
            /\ c.volume # None =>
                  /\ c.volume = Product(r)
                  /\ (r.Length = FInt(-10) /\ r.Width = FInt(-5)
                         /\ r.Height = FInt(-2)) => c.volume = FInt(-100)
            /\ (c.pc = "done"
                   /\ ValidateZipcode(r.OriginZipcode, "origin_zipcode") = Nil
                   /\ ValidateZipcode(r.DestinationZipcode,
                                      "destination_zipcode") = Nil
                   /\ ValidateWeight(r.Weight) = Nil) =>
                  c.volume = Product(r)
            /\ c.details # None =>
                  /\ c.details.VolumeSurcharge =
                        FMul(FMul(c.baseCost, volumeSurchargeRate),
                             FDiv(Product(r), volumeUnit))
                  /\ FLe(Product(r), maxVolumeCm3)

\* A call with dimensions -10 x -5 x -2 was refused for its length and holds
\* the volume -100, and another call took its volume surcharge on 240 cm3.
C27_Witness ==
    \E p, q \in Calls :
        /\ calls[p].pc = "done"
        /\ calls[p].err = "invalid dimensions: dimensions.length must be positive"
        /\ calls[p].req.Length = FInt(-10)
        /\ calls[p].volume = FInt(-100)
        /\ calls[q].pc = "done"
        /\ calls[q].err = Nil
        /\ calls[q].volume = FInt(240)
        /\ calls[q].details.VolumeSurcharge =
              FMul(FMul(calls[q].baseCost, volumeSurchargeRate),
                   FDiv(FInt(240), volumeUnit))

\* C28: in every request whose origin and destination zipcodes both pass
\* ValidateZipcode, both normalized codes parse as numbers in
\* calculateBaseCost, so when CalculateShipping goes on to price the request
\* it never takes the flat cost of the unparseable case.
C28_ValidatedZipcodesParse ==
    (/\ pc = "done"
     /\ ValidateZipcode(req.OriginZipcode, "origin_zipcode") = Nil
     /\ ValidateZipcode(req.DestinationZipcode, "destination_zipcode") = Nil
     /\ err = Nil) =>
        /\ ParseFloat(Normalize(req.OriginZipcode)).ok
        /\ ParseFloat(Normalize(req.DestinationZipcode)).ok

\* C29: for every request that passes validation the base cost is at least
\* 1000, the cost of the standard option is strictly above the base cost, the
\* cost of the express option strictly above that of the standard option, and
\* shipping_cost is above zero whether is_express is set or not.
C29_CostsStrictlyOrdered ==
    (pc = "done" /\ err = Nil) =>
        LET base == calculateBaseCost(req.OriginZipcode, req.DestinationZipcode)
            standard == resp.ShippingOptions[1].Cost
            express == resp.ShippingOptions[2].Cost
        IN  /\ FLe(FInt(1000), base)
            /\ FGt(standard, base)
            /\ FGt(express, standard)
            /\ FGt(resp.ShippingCost, FInt(0))

\* The string s with a '-' put in front of it and a ' ' after each of its
\* characters.
Separated(s) ==
    LET RECURSIVE Spaced(_)
        Spaced(t) == IF t = <<>> THEN <<>>
                     ELSE <<Head(t), " ">> \o Spaced(Tail(t))
    IN  <<"-">> \o Spaced(s)

\* C30: calculateBaseCost gives the same cost for (a, b) and (b, a), and the
\* same cost when '-' and ' ' are removed from or inserted into either
\* argument, for all strings a and b, those of the flat-cost fallback included.
C30_SymmetricAndSeparatorInsensitive ==
    pc = "done" =>
        /\ FEq(baseCost, calculateBaseCost(destination, origin))
        /\ FEq(baseCost, calculateBaseCost(Normalize(origin), Normalize(destination)))
        /\ FEq(baseCost, calculateBaseCost(Separated(origin), Separated(destination)))

====
